---- MODULE Spec2Model ----
(***************************************************************************)
(* The stub server's connection channel (boltstub/channel.py): handshake   *)
(* negotiation, the one-message lookahead slot behind consume / peek /     *)
(* try_auto_consume, and the send path.                                    *)
(*                                                                         *)
(* Every call of a Channel method is one action.  What a call does to its  *)
(* collaborators (wire, PackStream, dialect table, log callback) is        *)
(* recorded, in program order, as the list of events of that call.         *)
(***************************************************************************)
EXTENDS Integers, Sequences, FiniteSets, TLC

\* Number of Channel method calls explored on one channel.
MaxCalls == 3

----------------------------------------------------------------------------
\* Python's None / a present value.
None == <<>>
Some(x) == <<x>>

Ev(name, arg) == [ev |-> name, arg |-> arg]

\* One call's outcome: collaborator events in order, returned value (None
\* when the call raised), raised exception (None when it returned) and the
\* value of self._buffered_msg when the call ends.
Outcome(events, ret, err, slot) ==
    [events |-> events, ret |-> ret, err |-> err, slot |-> slot]

----------------------------------------------------------------------------
(* Inputs *)

MAGIC == <<96, 96, 176, 23>>

\* First four bytes a peer may send: the magic header and two near misses.
Magics == {MAGIC, <<96, 96, 176, 24>>, <<0, 96, 176, 23>>}

\* One 4-byte version proposal of the handshake payload.
Proposals == {<<0, 0, 0, 4>>, <<0, 0, 1, 4>>, <<0, 0, 0, 3>>, <<0, 0, 4, 0>>,
              <<0, 0, 0, 0>>}

\* The 20 bytes wire.read(20) can return.
Requests ==
    {m \o a \o b \o c \o d : m \in Magics, a \in Proposals, b \in Proposals,
                             c \in Proposals, d \in Proposals}

\* bolt_version constructor arguments (major, minor).
Versions == {<<4, 0>>, <<4, 1>>}

\* handshake_data constructor arguments.
HandshakeData == {None, Some(<<170, 187, 204, 221>>)}

\* Decoded structures PackStream.read_message can yield.
Frames == {[tag |-> "01", fields |-> "hello"],
           [tag |-> "10", fields |-> "run"],
           [tag |-> "0F", fields |-> "reset"]}

\* whitelist arguments of try_auto_consume.
Whitelists == {{"HELLO"}, {"RESET", "RUN"}}

\* Arguments of send_raw, send_struct and send_server_line.
RawPayloads == {<<222, 173>>}
Structs == {[tag |-> "71", fields |-> "record"]}
ServerLines == {"SUCCESS", "FAILURE"}

\* Collaborator calls that can fail during a Channel call: reading or
\* decoding a frame, translating it, synthesizing the auto-reply, staging
\* or flushing a frame.
FaultSets == {{"read_message"}, {"translate_structure"}, {"get_auto_response"},
              {"write_message"}, {"drain"}}

----------------------------------------------------------------------------
(* Collaborators that channel.py imports *)

HexDigits == <<"0", "1", "2", "3", "4", "5", "6", "7",
               "8", "9", "A", "B", "C", "D", "E", "F">>

\* util.hex_repr: two upper-case hex digits per byte.
hex_repr(b) ==
    [i \in 1..Len(b) |-> <<HexDigits[(b[i] \div 16) + 1], HexDigits[(b[i] % 16) + 1]>>]

\* bolt_protocol.decode_versions: the payload is four proposals; bytes 3 and
\* 4 of each are minor and major.
decode_versions(request) ==
    [i \in 1..4 |-> <<request[4 * i], request[4 * i - 1]>>]

\* bolt_protocol.translate_structure: decoded structure -> named message.
translate_structure(s) ==
    [name |-> CASE s.tag = "01" -> "HELLO"
                [] s.tag = "10" -> "RUN"
                [] s.tag = "0F" -> "RESET"
                [] OTHER -> "UNKNOWN",
     fields |-> s.fields]

\* bolt_protocol.translate_server_line: scripted line -> structure.
translate_server_line(line) ==
    [tag |-> IF line = "SUCCESS" THEN "70" ELSE "7F", fields |-> line]

\* bolt_protocol.get_auto_response: default reply to a client message.
get_auto_response(msg) ==
    [tag |-> "70", fields |-> msg.name]

\* Wire / PackStream output side: written payloads are staged until the next
\* send()/drain(), which hands them to the peer as one flush.
RECURSIVE WireOut(_, _)
WireOut(w, events) ==
    IF events = <<>> THEN w
    ELSE LET e == Head(events)
             w2 == CASE e.ev \in {"write", "write_message"} ->
                           [w EXCEPT !.staged = Append(@, [kind |-> e.ev, data |-> e.arg])]
                      [] e.ev \in {"send", "drain"} ->
                           [staged |-> <<>>, sent |-> Append(w.sent, w.staged)]
                      [] OTHER -> w
         IN  WireOut(w2, Tail(events))

\* Frames the transport yielded during a call.
RECURSIVE FramesRead(_)
FramesRead(events) ==
    IF events = <<>> THEN <<>>
    ELSE (IF Head(events).ev = "read_message" THEN <<Head(events).arg>> ELSE <<>>)
         \o FramesRead(Tail(events))

----------------------------------------------------------------------------
(* State *)

VARIABLES
    log_cb,            \* TRUE iff a log callback was given to the constructor
    handshake_data,    \* None or Some(override handshake response)
    protocol_version,  \* bolt_protocol.protocol_version, (major, minor)
    _buffered_msg,     \* None or Some(message)
    wire,              \* [staged, sent]: output side of the transport
    rx,                \* frames the transport has yielded so far
    committed,         \* messages handed to the caller for good
    history,           \* one record per call made on the channel
    faults             \* collaborator calls that fail during the next call

vars == <<log_cb, handshake_data, protocol_version, _buffered_msg, wire, rx,
          committed, history, faults>>

\* Channel.__init__
Init ==
    /\ log_cb \in BOOLEAN
    /\ handshake_data \in HandshakeData
    /\ protocol_version \in Versions
    /\ _buffered_msg = None
    /\ wire = [staged |-> <<>>, sent |-> <<>>]
    /\ rx = <<>>
    /\ committed = <<>>
    /\ history = <<>>
    /\ faults = {}

----------------------------------------------------------------------------
(* Channel methods, as outcomes *)

TypeError == Some("TypeError")

\* The exception a failing collaborator call raises.
CollaboratorError(call) == <<"CollaboratorError", call>>

\* Channel._log: a no-op without a callback.
_log(fmt, arg) ==
    IF log_cb THEN <<Ev("log", <<fmt, arg>>)>> ELSE <<>>

\* self.log(...) called directly: calling None raises TypeError.
log(fmt, arg) ==
    IF log_cb THEN Outcome(<<Ev("log", <<fmt, arg>>)>>, Some("None"), None, _buffered_msg)
    ELSE Outcome(<<>>, None, TypeError, _buffered_msg)

\* Variant: only the first three magic bytes are compared.
_test_magic_bytes_prefix(request) ==
    IF SubSeq(request, 1, 3) # <<96, 96, 176>>
    THEN Outcome(_log("C: <MAGIC> %s", hex_repr(request)), None,
                 <<"ServerExit", "Expected the magic header {}, received {}",
                   "6060B017", hex_repr(request)>>,
                 _buffered_msg)
    ELSE Outcome(_log("C: <MAGIC> %s", hex_repr(request)), Some("None"), None,
                 _buffered_msg)

\* Channel._test_magic_bytes
_test_magic_bytes(request) ==
    IF request # <<96, 96, 176, 23>>
    THEN Outcome(_log("C: <MAGIC> %s", hex_repr(request)), None,
                 <<"ServerExit", "Expected the magic header {}, received {}",
                   "6060B017", hex_repr(request)>>,
                 _buffered_msg)
    ELSE Outcome(_log("C: <MAGIC> %s", hex_repr(request)), Some("None"), None,
                 _buffered_msg)

\* Variant: the version bytes are sent in (major, minor) order.
handshake_response_unswapped(supported_version) ==
    <<0, 0, supported_version[1], supported_version[2]>>

\* The response of a successful negotiation.
handshake_response(supported_version) ==
    <<0, 0, supported_version[2], supported_version[1]>>

\* Variant: a rejected handshake is answered with the supported version.
handshake_rejection_version ==
    <<0, 0, protocol_version[2], protocol_version[1]>>

\* The response written before a rejected handshake is reported.
handshake_rejection == <<0, 0, 0, 0>>

\* Variant: the versions are negotiated first and the override response
\* replaces only the response of a successful negotiation.
handshake_negotiate_first(request) ==
    LET supported_version == protocol_version
        requested_versions == decode_versions(request)
    IN  IF \E i \in DOMAIN requested_versions :
                requested_versions[i] = supported_version
        THEN [events |-> <<Ev("decode_versions", request)>>,
              response |-> IF handshake_data # None THEN Some(handshake_data[1])
                           ELSE Some(handshake_response(supported_version))]
        ELSE [events |-> <<Ev("decode_versions", request)>>,
              response |-> None]

\* Variant: the supported version is looked up as (minor, major).
handshake_negotiate_swapped(request) ==
    IF handshake_data # None
    THEN [events |-> <<>>, response |-> Some(handshake_data[1])]
    ELSE LET supported_version == protocol_version
             requested_versions == decode_versions(request)
         IN  IF \E i \in DOMAIN requested_versions :
                     requested_versions[i] = <<supported_version[2], supported_version[1]>>
             THEN [events |-> <<Ev("decode_versions", request)>>,
                   response |-> Some(handshake_response(supported_version))]
             ELSE [events |-> <<Ev("decode_versions", request)>>,
                   response |-> None]

\* The response handshake() sends when it does not fail on the magic bytes:
\* None when negotiation fails.
handshake_negotiate(request) ==
    IF handshake_data # None
    THEN [events |-> <<>>, response |-> Some(handshake_data[1])]
    ELSE LET supported_version == protocol_version
             requested_versions == decode_versions(request)
         IN  IF \E i \in DOMAIN requested_versions :
                     requested_versions[i] = supported_version
             THEN [events |-> <<Ev("decode_versions", request)>>,
                   response |-> Some(handshake_response(supported_version))]
             ELSE [events |-> <<Ev("decode_versions", request)>>,
                   response |-> None]

\* Variant: wrong magic bytes are answered like a rejected handshake, with
\* the all-zero response, before the error is raised.
handshake_answers_mismatch(input) ==
    LET read == <<Ev("read", <<20>>)>>
        magic == _test_magic_bytes(SubSeq(input, 1, 4))
        request == SubSeq(input, 5, 20)
        neg == handshake_negotiate(request)
        pre == read \o magic.events \o _log("C: <HANDSHAKE> %s", hex_repr(request))
                    \o neg.events
    IN  IF magic.err # None
        THEN Outcome(read \o magic.events
                         \o <<Ev("write", handshake_rejection), Ev("send", <<>>)>>,
                     None, magic.err, _buffered_msg)
        ELSE IF neg.response = None
        THEN Outcome(pre \o <<Ev("write", handshake_rejection), Ev("send", <<>>)>>,
                     None,
                     <<"ServerExit",
                       "Failed handshake, stub server talks protocol {}. Driver sent handshake: {}",
                       protocol_version, hex_repr(request)>>,
                     _buffered_msg)
        ELSE Outcome(pre \o <<Ev("write", neg.response[1]), Ev("send", <<>>)>>
                         \o _log("S: <HANDSHAKE> %s", hex_repr(neg.response[1])),
                     Some("None"), None, _buffered_msg)

\* Channel.handshake
handshake(input) ==
    LET read == <<Ev("read", <<20>>)>>
        magic == _test_magic_bytes(SubSeq(input, 1, 4))
        request == SubSeq(input, 5, 20)
        neg == handshake_negotiate(request)
        pre == read \o magic.events \o _log("C: <HANDSHAKE> %s", hex_repr(request))
                    \o neg.events
    IN  IF magic.err # None
        THEN Outcome(read \o magic.events, None, magic.err, _buffered_msg)
        ELSE IF neg.response = None
        THEN Outcome(pre \o <<Ev("write", handshake_rejection), Ev("send", <<>>)>>,
                     None,
                     <<"ServerExit",
                       "Failed handshake, stub server talks protocol {}. Driver sent handshake: {}",
                       protocol_version, hex_repr(request)>>,
                     _buffered_msg)
        ELSE Outcome(pre \o <<Ev("write", neg.response[1]), Ev("send", <<>>)>>
                         \o _log("S: <HANDSHAKE> %s", hex_repr(neg.response[1])),
                     Some("None"), None, _buffered_msg)

\* Channel.send_raw
send_raw(b) ==
    LET l == log("%s", hex_repr(b))
    IN  IF l.err # None THEN l
        ELSE Outcome(l.events \o <<Ev("write", b), Ev("send", <<>>)>>,
                     Some("None"), None, _buffered_msg)

\* Channel.send_struct, entered with self._buffered_msg = slot
send_struct_from(slot, struct) ==
    LET l == log("S: %s", struct)
    IN  IF l.err # None THEN Outcome(<<>>, None, l.err, slot)
        ELSE IF "write_message" \in faults
        THEN Outcome(l.events \o <<Ev("raise", "write_message")>>,
                     None, CollaboratorError("write_message"), slot)
        ELSE IF "drain" \in faults
        THEN Outcome(l.events \o <<Ev("write_message", struct), Ev("raise", "drain")>>,
                     None, CollaboratorError("drain"), slot)
        ELSE Outcome(l.events \o <<Ev("write_message", struct), Ev("drain", <<>>)>>,
                     Some("None"), None, slot)

send_struct(struct) == send_struct_from(_buffered_msg, struct)

\* Channel.send_server_line
send_server_line(server_line) ==
    LET l == log("%s", server_line)
        translated == translate_server_line(server_line)
    IN  IF l.err # None THEN l
        ELSE IF "write_message" \in faults
        THEN Outcome(l.events \o <<Ev("translate_server_line", server_line),
                                   Ev("raise", "write_message")>>,
                     None, CollaboratorError("write_message"), _buffered_msg)
        ELSE IF "drain" \in faults
        THEN Outcome(l.events \o <<Ev("translate_server_line", server_line),
                                   Ev("write_message", translated),
                                   Ev("raise", "drain")>>,
                     None, CollaboratorError("drain"), _buffered_msg)
        ELSE Outcome(l.events \o <<Ev("translate_server_line", server_line),
                                   Ev("write_message", translated), Ev("drain", <<>>)>>,
                     Some("None"), None, _buffered_msg)

\* Variant: a structure that cannot be translated is handed on as it is.
_consume_untranslated(frame) ==
    IF "read_message" \in faults
    THEN Outcome(<<Ev("raise", "read_message")>>,
                 None, CollaboratorError("read_message"), _buffered_msg)
    ELSE IF "translate_structure" \in faults
    THEN Outcome(<<Ev("read_message", frame), Ev("raise", "translate_structure")>>,
                 Some([name |-> "UNKNOWN", fields |-> frame.fields]), None, _buffered_msg)
    ELSE Outcome(<<Ev("read_message", frame), Ev("translate_structure", frame)>>,
                 Some(translate_structure(frame)), None, _buffered_msg)

\* Channel._consume: frame is what stream.read_message() yields.
_consume(frame) ==
    IF "read_message" \in faults
    THEN Outcome(<<Ev("raise", "read_message")>>,
                 None, CollaboratorError("read_message"), _buffered_msg)
    ELSE IF "translate_structure" \in faults
    THEN Outcome(<<Ev("read_message", frame), Ev("raise", "translate_structure")>>,
                 None, CollaboratorError("translate_structure"), _buffered_msg)
    ELSE Outcome(<<Ev("read_message", frame), Ev("translate_structure", frame)>>,
                 Some(translate_structure(frame)), None, _buffered_msg)

\* Variant: the buffered message is returned but stays in the slot.
consume_keeps_slot(frame) ==
    IF _buffered_msg # None
    THEN LET l == log("C: %s", _buffered_msg[1])
         IN  IF l.err # None THEN l
             ELSE Outcome(l.events, Some(_buffered_msg[1]), None, _buffered_msg)
    ELSE _consume(frame)

\* Channel.consume
consume(frame) ==
    IF _buffered_msg # None
    THEN LET l == log("C: %s", _buffered_msg[1])
         IN  IF l.err # None THEN l
             ELSE Outcome(l.events, Some(_buffered_msg[1]), None, None)
    ELSE _consume(frame)

\* Variant: the peeked message is returned but not kept in the slot.
peek_unbuffered(frame) ==
    IF _buffered_msg = None
    THEN LET c == _consume(frame)
         IN  Outcome(c.events, c.ret, c.err, None)
    ELSE Outcome(<<>>, _buffered_msg, None, _buffered_msg)

\* Channel.peek
peek(frame) ==
    IF _buffered_msg = None
    THEN LET c == _consume(frame)
         IN  Outcome(c.events, c.ret, c.err, c.ret)
    ELSE Outcome(<<>>, _buffered_msg, None, _buffered_msg)

\* Variant: the slot is cleared only once the auto-reply has been sent.
try_auto_consume_commit_last(whitelist, frame) ==
    LET p == peek(frame)
        next_msg == p.ret[1]
        l1 == log("C: %s", next_msg)
        l2 == log("AUTO response:", <<>>)
        s == send_struct_from(None, get_auto_response(next_msg))
    IN  IF p.err # None THEN p
        ELSE IF next_msg.name \in whitelist
        THEN IF l1.err # None
             THEN Outcome(p.events, None, l1.err, p.slot)
             ELSE IF "get_auto_response" \in faults
             THEN Outcome(p.events \o l1.events \o l2.events
                              \o <<Ev("raise", "get_auto_response")>>,
                          None, CollaboratorError("get_auto_response"), p.slot)
             ELSE Outcome(p.events \o l1.events \o l2.events
                              \o <<Ev("get_auto_response", next_msg)>> \o s.events,
                          IF s.err = None THEN Some(TRUE) ELSE None, s.err,
                          IF s.err = None THEN None ELSE p.slot)
        ELSE Outcome(p.events, Some(FALSE), None, p.slot)

\* Channel.try_auto_consume
try_auto_consume(whitelist, frame) ==
    LET p == peek(frame)
        next_msg == p.ret[1]
        l1 == log("C: %s", next_msg)
        l2 == log("AUTO response:", <<>>)
        s == send_struct_from(None, get_auto_response(next_msg))
    IN  IF p.err # None THEN p
        ELSE IF next_msg.name \in whitelist
        THEN IF l1.err # None
             THEN Outcome(p.events, None, l1.err, None)
             ELSE IF "get_auto_response" \in faults
             THEN Outcome(p.events \o l1.events \o l2.events
                              \o <<Ev("raise", "get_auto_response")>>,
                          None, CollaboratorError("get_auto_response"), None)
             ELSE Outcome(p.events \o l1.events \o l2.events
                              \o <<Ev("get_auto_response", next_msg)>> \o s.events,
                          IF s.err = None THEN Some(TRUE) ELSE None, s.err, None)
        ELSE Outcome(p.events, Some(FALSE), None, p.slot)

----------------------------------------------------------------------------
(* Actions: one per call *)

\* The state after a call of `op` with argument `arg` ended as `o`;
\* `commits` are the messages the call handed over for good.
Call(op, arg, o, commits) ==
    /\ Len(history) < MaxCalls
    /\ _buffered_msg' = o.slot
    /\ wire' = WireOut(wire, o.events)
    /\ rx' = rx \o FramesRead(o.events)
    /\ committed' = committed \o commits
    /\ history' = Append(history, [op |-> op, arg |-> arg, pre |-> _buffered_msg,
                                   events |-> o.events, ret |-> o.ret,
                                   err |-> o.err, slot |-> o.slot,
                                   faults |-> faults])
    /\ faults' = {}
    /\ UNCHANGED <<log_cb, handshake_data, protocol_version>>

\* handshake() is the first call made on a connection.
Handshake ==
    \E input \in Requests :
        /\ history = <<>>
        /\ Call("handshake", input, handshake(input), <<>>)

SendRaw ==
    \E b \in RawPayloads : Call("send_raw", b, send_raw(b), <<>>)

SendStruct ==
    \E s \in Structs : Call("send_struct", s, send_struct(s), <<>>)

SendServerLine ==
    \E l \in ServerLines : Call("send_server_line", l, send_server_line(l), <<>>)

Consume ==
    \E frame \in Frames :
        LET o == consume(frame)
        IN  Call("consume", <<>>, o, IF o.ret # None THEN o.ret ELSE <<>>)

Peek ==
    \E frame \in Frames : Call("peek", <<>>, peek(frame), <<>>)

TryAutoConsume ==
    \E whitelist \in Whitelists, frame \in Frames :
        LET o == try_auto_consume(whitelist, frame)
        IN  Call("try_auto_consume", whitelist, o,
                 IF o.ret = Some(TRUE) THEN peek(frame).ret ELSE <<>>)

\* The scripted interaction after the handshake.
Next ==
    \/ Consume
    \/ Peek
    \/ TryAutoConsume
    \/ SendRaw
    \/ SendStruct
    \/ SendServerLine

Spec == Init /\ [][Next]_vars

\* The handshake of a fresh connection.
NextHandshake == Handshake

SpecHandshake == Init /\ [][NextHandshake]_vars

\* The environment: some collaborator call fails during the next call on
\* the channel.  One call per connection runs into a failure.
InjectFault ==
    \E f \in FaultSets :
        /\ faults = {}
        /\ Len(history) < MaxCalls
        /\ \A i \in DOMAIN history : history[i].faults = {}
        /\ faults' = f
        /\ UNCHANGED <<log_cb, handshake_data, protocol_version, _buffered_msg,
                       wire, rx, committed, history>>

\* Reading messages and sending server lines over collaborators that can fail.
NextFaults ==
    \/ Consume
    \/ Peek
    \/ TryAutoConsume
    \/ SendServerLine
    \/ InjectFault

SpecFaults == Init /\ [][NextFaults]_vars

\* Requests of a handshake() made at any point of a connection.
SessionRequests ==
    {m \o p \o p \o p \o p : m \in {MAGIC, <<96, 96, 176, 24>>},
                              p \in {<<0, 0, 0, 4>>, <<0, 0, 0, 3>>}}

\* Channel.handshake called at any point: the code does not require it to
\* be the first call.
HandshakeAnytime ==
    \E input \in SessionRequests :
        Call("handshake", input, handshake(input), <<>>)

\* Every method of the channel, in any order.
NextSession ==
    \/ HandshakeAnytime
    \/ Consume
    \/ Peek
    \/ TryAutoConsume
    \/ SendRaw
    \/ SendStruct
    \/ SendServerLine

SpecSession == Init /\ [][NextSession]_vars

----------------------------------------------------------------------------
(* Reading a call record *)

\* Payloads a call wrote (wire.write or stream.write_message), in order.
RECURSIVE Written(_)
Written(events) ==
    IF events = <<>> THEN <<>>
    ELSE (IF Head(events).ev \in {"write", "write_message"}
          THEN <<[kind |-> Head(events).ev, data |-> Head(events).arg]>> ELSE <<>>)
         \o Written(Tail(events))

\* Number of events of the given kinds in a call.
RECURSIVE Count(_, _)
Count(events, kinds) ==
    IF events = <<>> THEN 0
    ELSE (IF Head(events).ev \in kinds THEN 1 ELSE 0) + Count(Tail(events), kinds)

\* Number of bytes a call requested from the wire with wire.read(n).
RECURSIVE BytesRequested(_)
BytesRequested(events) ==
    IF events = <<>> THEN 0
    ELSE (IF Head(events).ev = "read" THEN Head(events).arg[1] ELSE 0)
         + BytesRequested(Tail(events))

\* The last event of a call is a flush.
EndsFlushed(events) ==
    \E i \in DOMAIN events :
        /\ events[i].ev \in {"send", "drain"}
        /\ \A j \in (i + 1)..Len(events) : events[j].ev = "log"

Returned(c) == c.err = None /\ c.ret # None
Raised(c) == c.err # None /\ c.ret = None

\* The handshake call of a connection, when it has been made.
HandshakeDone == Len(history) = 1 /\ history[1].op = "handshake"
MagicOf(c) == SubSeq(c.arg, 1, 4)
PayloadOf(c) == SubSeq(c.arg, 5, 20)
Proposes(payload, version) ==
    \E i \in 1..4 : decode_versions(payload)[i] = version

----------------------------------------------------------------------------
(* Claims about the handshake, checked under SpecHandshake *)

\* C3: with no override response, valid magic bytes and a payload whose
\* decoded versions contain the supported (major, minor), handshake()
\* returns without error and the only bytes written are the 4-byte response
\* (0, 0, minor, major), written once and flushed once.
C3_HandshakeAccepts ==
    (/\ HandshakeDone
     /\ handshake_data = None
     /\ MagicOf(history[1]) = MAGIC
     /\ Proposes(PayloadOf(history[1]), protocol_version))
    => /\ Returned(history[1])
       /\ Written(history[1].events) =
              <<[kind |-> "write",
                 data |-> <<0, 0, protocol_version[2], protocol_version[1]>>]>>
       /\ Count(history[1].events, {"send", "drain"}) = 1
       /\ EndsFlushed(history[1].events)
       /\ wire = [staged |-> <<>>,
                  sent |-> <<Written(history[1].events)>>]

C3_Witness ==
    /\ HandshakeDone
    /\ handshake_data = None
    /\ MagicOf(history[1]) = MAGIC
    /\ protocol_version = <<4, 1>>
    /\ Proposes(PayloadOf(history[1]), <<4, 1>>)
    /\ Proposes(PayloadOf(history[1]), <<3, 0>>)
    /\ wire.sent = << <<[kind |-> "write", data |-> <<0, 0, 1, 4>>]>> >>

\* C4: with no override response and valid magic bytes, a payload whose
\* decoded versions do not contain the supported version makes handshake()
\* write exactly 00 00 00 00, flush it, and only then raise the rejection
\* carrying the supported version and the 16 request bytes.
C4_HandshakeRejects ==
    (/\ HandshakeDone
     /\ handshake_data = None
     /\ MagicOf(history[1]) = MAGIC
     /\ ~Proposes(PayloadOf(history[1]), protocol_version))
    => /\ Raised(history[1])
       /\ history[1].err[1] = "ServerExit"
       /\ history[1].err[3] = protocol_version
       /\ history[1].err[4] = hex_repr(PayloadOf(history[1]))
       /\ Written(history[1].events) = <<[kind |-> "write", data |-> <<0, 0, 0, 0>>]>>
       /\ Count(history[1].events, {"send", "drain"}) = 1
       /\ history[1].events[Len(history[1].events)].ev = "send"
       /\ wire = [staged |-> <<>>,
                  sent |-> << <<[kind |-> "write", data |-> <<0, 0, 0, 0>>]>> >>]

C4_Witness ==
    /\ HandshakeDone
    /\ handshake_data = None
    /\ MagicOf(history[1]) = MAGIC
    /\ protocol_version = <<4, 1>>
    /\ Proposes(PayloadOf(history[1]), <<4, 0>>)
    /\ Raised(history[1])
    /\ wire.sent = << <<[kind |-> "write", data |-> <<0, 0, 0, 0>>]>> >>

\* The Protocol Mismatch error for the received magic bytes.
IsProtocolMismatch(c) ==
    /\ Raised(c)
    /\ c.err[1] = "ServerExit"
    /\ c.err[3] = "6060B017"
    /\ c.err[4] = hex_repr(MagicOf(c))

\* C5 as stated: when the first 4 bytes are not 60 60 B0 17, handshake()
\* raises Protocol Mismatch (expected and received magic bytes) and at that
\* moment exactly 4 bytes have been requested from the transport.
C5_MismatchAfterFourBytes ==
    (HandshakeDone /\ MagicOf(history[1]) # MAGIC)
    => /\ IsProtocolMismatch(history[1])
       /\ BytesRequested(history[1].events) = 4

\* C5 amended: when the first 4 bytes are not 60 60 B0 17, handshake()
\* raises Protocol Mismatch (expected and received magic bytes) after one
\* read that requested all 20 handshake bytes; the 16 payload bytes are
\* neither decoded nor answered.
C5_MismatchAfterOneRead ==
    (HandshakeDone /\ MagicOf(history[1]) # MAGIC)
    => /\ IsProtocolMismatch(history[1])
       /\ Count(history[1].events, {"read"}) = 1
       /\ BytesRequested(history[1].events) = 20
       /\ Count(history[1].events, {"decode_versions", "write", "send"}) = 0

C5_Witness ==
    /\ HandshakeDone
    /\ MagicOf(history[1]) = <<96, 96, 176, 24>>
    /\ IsProtocolMismatch(history[1])
    /\ history[1].events[1] = Ev("read", <<20>>)

\* C6: with an override response configured and valid magic bytes, every
\* payload makes handshake() write and flush exactly the override bytes,
\* without calling decode_versions and without raising.
C6_OverrideVerbatim ==
    (/\ HandshakeDone
     /\ handshake_data # None
     /\ MagicOf(history[1]) = MAGIC)
    => /\ Returned(history[1])
       /\ Written(history[1].events) = <<[kind |-> "write", data |-> handshake_data[1]]>>
       /\ Count(history[1].events, {"send", "drain"}) = 1
       /\ Count(history[1].events, {"decode_versions"}) = 0
       /\ wire = [staged |-> <<>>,
                  sent |-> << <<[kind |-> "write", data |-> handshake_data[1]]>> >>]

C6_Witness ==
    /\ HandshakeDone
    /\ handshake_data = Some(<<170, 187, 204, 221>>)
    /\ MagicOf(history[1]) = MAGIC
    /\ ~Proposes(PayloadOf(history[1]), protocol_version)
    /\ wire.sent = << <<[kind |-> "write", data |-> <<170, 187, 204, 221>>]>> >>

----------------------------------------------------------------------------
(* Claims about consume / peek / try_auto_consume, checked under Spec *)

Calls == DOMAIN history

\* The message a call found next: the slot's when occupied, else the one
\* translated from the frame the call read.
NextMsg(c) ==
    IF c.pre # None THEN c.pre[1]
    ELSE translate_structure(FramesRead(c.events)[1])

\* C1: the messages committed to the caller (returned by consume(), or
\* committed by try_auto_consume() returning true) are, in call order, the
\* translations of a prefix of the frames the transport yielded, and an
\* occupied slot holds the frame right after the last committed one.
C1_CommittedIsPrefix ==
    /\ Len(committed) <= Len(rx)
    /\ \A i \in 1..Len(committed) : committed[i] = translate_structure(rx[i])
    /\ _buffered_msg # None =>
           /\ Len(rx) = Len(committed) + 1
           /\ _buffered_msg[1] = translate_structure(rx[Len(rx)])

\* C2: frames read from the transport = messages committed + 1 if the slot
\* is occupied.
C2_OneReadPerMessage ==
    Len(rx) = Len(committed) + (IF _buffered_msg # None THEN 1 ELSE 0)

\* C7: a peek() reads one frame when the slot is empty and none when it is
\* occupied, and a peek() that follows a peek() with no consume() or
\* try_auto_consume() in between returns the same message without reading
\* the transport.
C7_PeekIdempotent ==
    \A j \in Calls :
        history[j].op = "peek" =>
            /\ Returned(history[j])
            /\ Len(FramesRead(history[j].events)) =
                   (IF history[j].pre = None THEN 1 ELSE 0)
            /\ \A i \in 1..(j - 1) :
                   (/\ history[i].op = "peek"
                    /\ \A k \in (i + 1)..(j - 1) :
                           history[k].op \notin {"consume", "try_auto_consume"})
                   => /\ history[j].ret = history[i].ret
                      /\ FramesRead(history[j].events) = <<>>

C7_Witness ==
    /\ Len(history) = 3
    /\ \A i \in 1..3 : history[i].op = "peek"
    /\ history[1].pre = None
    /\ history[3].ret = Some(translate_structure(rx[1]))
    /\ Len(rx) = 1

\* C8: consume() right after peek() returns the message peek() returned
\* without reading the transport, and a peek() or consume() right after that
\* reads one new frame and returns its message.
C8_ConsumeAfterPeek ==
    \A i \in Calls :
        (history[i].op = "peek" /\ i + 1 \in Calls /\ history[i + 1].op = "consume") =>
            /\ Returned(history[i + 1])
            /\ history[i + 1].ret = history[i].ret
            /\ FramesRead(history[i + 1].events) = <<>>
            /\ (i + 2 \in Calls /\ history[i + 2].op \in {"peek", "consume"}) =>
                   /\ Len(FramesRead(history[i + 2].events)) = 1
                   /\ history[i + 2].ret =
                          Some(translate_structure(FramesRead(history[i + 2].events)[1]))

\* C9: try_auto_consume(whitelist) on a next message whose name is in the
\* whitelist returns true with the slot empty, having written exactly one
\* frame, get_auto_response of that message, and flushed it, whether or not
\* the slot was occupied when the call started.
C9_AutoConsumeCommits ==
    \A i \in Calls :
        (history[i].op = "try_auto_consume"
            /\ NextMsg(history[i]).name \in history[i].arg) =>
            /\ history[i].ret = Some(TRUE)
            /\ history[i].err = None
            /\ history[i].slot = None
            /\ Written(history[i].events) =
                   <<[kind |-> "write_message",
                      data |-> get_auto_response(NextMsg(history[i]))]>>
            /\ Count(history[i].events, {"send", "drain"}) = 1
            /\ EndsFlushed(history[i].events)

\* C10: try_auto_consume(whitelist) on a next message whose name is not in
\* the whitelist returns false, writes nothing, leaves the slot holding
\* that message, and a consume() right after it returns that message
\* without reading a frame.
C10_AutoConsumeLeaves ==
    \A i \in Calls :
        (history[i].op = "try_auto_consume"
            /\ NextMsg(history[i]).name \notin history[i].arg) =>
            /\ history[i].ret = Some(FALSE)
            /\ history[i].err = None
            /\ Count(history[i].events, {"write", "write_message", "send", "drain"}) = 0
            /\ history[i].slot = Some(NextMsg(history[i]))
            /\ (i + 1 \in Calls /\ history[i + 1].op = "consume") =>
                   /\ history[i + 1].ret = Some(NextMsg(history[i]))
                   /\ FramesRead(history[i + 1].events) = <<>>

\* C11: whenever consume() returns the slot is empty, whether it was empty
\* or occupied before; from an empty slot consume() returns the message of
\* the one frame it reads and the slot is never populated.
C11_ConsumeEmptiesSlot ==
    \A i \in Calls :
        (history[i].op = "consume" /\ Returned(history[i])) =>
            /\ history[i].slot = None
            /\ history[i].pre # None =>
                   /\ history[i].ret = history[i].pre
                   /\ FramesRead(history[i].events) = <<>>
            /\ history[i].pre = None =>
                   /\ Len(FramesRead(history[i].events)) = 1
                   /\ history[i].ret =
                          Some(translate_structure(FramesRead(history[i].events)[1]))

C11_Witness ==
    /\ Len(history) = 3
    /\ history[1].op = "peek"
    /\ history[2].op = "consume" /\ Returned(history[2])
    /\ history[2].pre # None /\ history[2].slot = None
    /\ history[3].op = "consume" /\ Returned(history[3])
    /\ history[3].pre = None /\ _buffered_msg = None

----------------------------------------------------------------------------
(* Claims about the send path and the logger *)

\* The payloads of a sequence of flushes, in order.
RECURSIVE Flatten(_)
Flatten(batches) ==
    IF batches = <<>> THEN <<>> ELSE Head(batches) \o Flatten(Tail(batches))

\* The payload a call was handed to send: its argument for the send
\* operations, the auto-reply for a whitelisted try_auto_consume().
Handed(c) ==
    CASE c.op = "send_raw" -> <<[kind |-> "write", data |-> c.arg]>>
      [] c.op = "send_struct" -> <<[kind |-> "write_message", data |-> c.arg]>>
      [] c.op = "send_server_line" ->
             <<[kind |-> "write_message", data |-> translate_server_line(c.arg)]>>
      [] c.op = "try_auto_consume" ->
             IF NextMsg(c).name \in c.arg
             THEN <<[kind |-> "write_message", data |-> get_auto_response(NextMsg(c))]>>
             ELSE <<>>
      [] OTHER -> <<>>

RECURSIVE HandedUpTo(_)
HandedUpTo(n) ==
    IF n = 0 THEN <<>> ELSE HandedUpTo(n - 1) \o Handed(history[n])

\* C12: after any sequence of send_raw(), send_struct(), send_server_line()
\* and try_auto_consume() calls the payloads flushed to the transport are
\* the payloads handed to those calls, in call order, and nothing written
\* is left staged.
C12_FlushedInCallOrder ==
    /\ Flatten(wire.sent) = HandedUpTo(Len(history))
    /\ wire.staged = <<>>

\* C13: the logger is optional; no call on a channel, built with or
\* without a log callback, fails because the callback is missing.
C13_LoggerOptional ==
    \A i \in Calls : history[i].err # TypeError

----------------------------------------------------------------------------
(* More claims about the handshake, checked under SpecHandshake *)

\* A handshake without override response, with valid magic bytes, on a
\* channel supporting 4.0, whose payload decodes to the single proposal v
\* (the other three proposals are empty).
SingleProposal(v) ==
    /\ HandshakeDone
    /\ handshake_data = None
    /\ MagicOf(history[1]) = MAGIC
    /\ protocol_version = <<4, 0>>
    /\ decode_versions(PayloadOf(history[1])) = <<v, <<0, 0>>, <<0, 0>>, <<0, 0>>>>

\* C14 as stated: the payload decodes to the proposal list [(0,4)], the
\* supported version is (4,0), no override: handshake() responds 00 00 00 04.
C14_ProposalZeroFour ==
    SingleProposal(<<0, 4>>) =>
        /\ Returned(history[1])
        /\ Written(history[1].events) = <<[kind |-> "write", data |-> <<0, 0, 0, 4>>]>>

\* C14 amended: the payload decodes to the proposal list [(4,0)], the
\* supported version is (4,0), no override: handshake() responds 00 00 00 04.
C14_ProposalFourZero ==
    SingleProposal(<<4, 0>>) =>
        /\ Returned(history[1])
        /\ Written(history[1].events) = <<[kind |-> "write", data |-> <<0, 0, 0, 4>>]>>
        /\ wire = [staged |-> <<>>,
                   sent |-> << <<[kind |-> "write", data |-> <<0, 0, 0, 4>>]>> >>]

C14_Witness ==
    /\ SingleProposal(<<4, 0>>)
    /\ Flatten(wire.sent) = <<[kind |-> "write", data |-> <<0, 0, 0, 4>>]>>

----------------------------------------------------------------------------
(* Claims about failing collaborators, checked under SpecFaults *)

ReadOps == {"peek", "consume", "try_auto_consume"}

\* The call went to the transport for a frame while reading or translating
\* was going to fail.
ReadFailedIn(c) ==
    /\ c.op \in ReadOps
    /\ c.pre = None
    /\ c.faults \in {{"read_message"}, {"translate_structure"}}

\* C15: when reading, decoding or translating a frame fails during peek(),
\* consume() or try_auto_consume(), the call raises that very error, writes
\* and flushes nothing, and leaves the slot as it was before the call.
C15_ReadErrorPropagates ==
    \A i \in Calls :
        ReadFailedIn(history[i]) =>
            /\ Raised(history[i])
            /\ \E k \in history[i].faults : history[i].err = CollaboratorError(k)
            /\ Count(history[i].events,
                     {"write", "write_message", "send", "drain"}) = 0
            /\ history[i].slot = history[i].pre

C15_Witness ==
    /\ Len(history) = 2
    /\ history[1].op = "peek"
    /\ history[1].faults = {"translate_structure"}
    /\ history[1].err = CollaboratorError("translate_structure")
    /\ history[1].slot = None
    /\ history[2].op = "try_auto_consume"
    /\ history[2].ret = Some(FALSE)
    /\ Len(rx) = 2

----------------------------------------------------------------------------
(* More claims about the send path *)

SendOps == {"send_raw", "send_struct", "send_server_line"}

\* C16: each send operation stages exactly one payload and flushes once
\* before it returns: send_raw(b) writes b itself directly on the transport,
\* send_struct(s) writes s through the frame codec, send_server_line(l)
\* writes translate_server_line(l) through the frame codec.
C16_SendWritesOnePayload ==
    \A i \in Calls :
        history[i].op \in SendOps =>
            /\ Returned(history[i])
            /\ Written(history[i].events) = Handed(history[i])
            /\ Count(history[i].events, {"send", "drain"}) = 1
            /\ EndsFlushed(history[i].events)
            /\ Count(history[i].events, {"write", "send"}) =
                   (IF history[i].op = "send_raw" THEN 2 ELSE 0)
            /\ Count(history[i].events, {"write_message", "drain"}) =
                   (IF history[i].op = "send_raw" THEN 0 ELSE 2)

----------------------------------------------------------------------------
(* Another claim about the handshake, checked under SpecHandshake *)

\* C17: when handshake() fails on wrong magic bytes nothing has been written
\* or flushed, not even a configured override response, and
\* decode_versions has not been called.
C17_MismatchWritesNothing ==
    (HandshakeDone /\ MagicOf(history[1]) # MAGIC) =>
        /\ IsProtocolMismatch(history[1])
        /\ Written(history[1].events) = <<>>
        /\ \A j \in DOMAIN history[1].events :
               history[1].events[j].ev \in {"read", "log"}
        /\ wire = [staged |-> <<>>, sent |-> <<>>]

C17_Witness ==
    /\ HandshakeDone
    /\ MagicOf(history[1]) = <<0, 96, 176, 23>>
    /\ handshake_data = Some(<<170, 187, 204, 221>>)
    /\ log_cb
    /\ Raised(history[1])
    /\ wire.sent = <<>>

----------------------------------------------------------------------------
(* Another claim about failing collaborators, checked under SpecFaults *)

ReplyCalls == {"get_auto_response", "write_message", "drain"}

\* The collaborator call that failed while the call was replying, if any.
ReplyFailure(c) ==
    {k \in ReplyCalls : \E j \in DOMAIN c.events :
                            c.events[j].ev = "raise" /\ c.events[j].arg = k}

\* C18: when get_auto_response or the send fails in try_auto_consume() on a
\* whitelisted message, the error propagates with the slot already empty
\* and no reply flushed, and a consume() or peek() right after it reads the
\* following frame from the transport.
C18_FailedReplyStillCommits ==
    \A i \in Calls :
        (history[i].op = "try_auto_consume" /\ ReplyFailure(history[i]) # {}) =>
            /\ NextMsg(history[i]).name \in history[i].arg
            /\ Raised(history[i])
            /\ \E k \in ReplyFailure(history[i]) : history[i].err = CollaboratorError(k)
            /\ history[i].slot = None
            /\ Count(history[i].events, {"send", "drain"}) = 0
            /\ (i + 1 \in Calls /\ history[i + 1].op \in {"consume", "peek"}) =>
                   /\ Len(FramesRead(history[i + 1].events)) = 1
                   /\ history[i + 1].ret =
                          Some(translate_structure(FramesRead(history[i + 1].events)[1]))

C18_Witness ==
    /\ Len(history) = 3
    /\ history[1].op = "peek"
    /\ history[2].op = "try_auto_consume"
    /\ history[2].pre = Some(translate_structure(rx[1]))
    /\ history[2].err = CollaboratorError("get_auto_response")
    /\ history[2].slot = None
    /\ history[3].op = "consume"
    /\ history[3].ret = Some(translate_structure(rx[2]))
    /\ committed = <<translate_structure(rx[2])>>
    /\ rx[1] # rx[2]
    /\ wire.sent = <<>>

----------------------------------------------------------------------------
(* A claim about all methods, checked under SpecSession *)

\* handshake() and the send operations read no frame and leave the slot as
\* it was.
SendsLeaveSlot ==
    \A i \in Calls :
        history[i].op \in SendOps \cup {"handshake"} =>
            /\ FramesRead(history[i].events) = <<>>
            /\ Count(history[i].events, {"read_message", "translate_structure"}) = 0
            /\ history[i].slot = history[i].pre

\* C19: handshake(), send_raw(), send_struct() and send_server_line() never
\* read a frame and leave the slot unchanged, and a message peeked before
\* one of them is returned unchanged by the consume() that follows it.
C19_SendsKeepPeeked ==
    /\ SendsLeaveSlot
    /\ \A i \in Calls :
           (/\ history[i].op = "peek"
            /\ i + 2 \in Calls
            /\ history[i + 1].op \in SendOps \cup {"handshake"}
            /\ history[i + 2].op = "consume")
           => /\ Returned(history[i + 2])
              /\ history[i + 2].ret = history[i].ret
              /\ FramesRead(history[i + 2].events) = <<>>

====
